---- MODULE Spec2Model ----
(***************************************************************************)
(* Model of the prompt-retrieval orchestrator                              *)
(* (src/src/prompt_retrieval/orchestrator/orchestrator.py): one run of     *)
(* PromptRetrievalOrchestrator.retrieve_prompts over injected strategies.  *)
(*                                                                         *)
(* The question source, the result sink and the three strategies are       *)
(* injected collaborators: what they return (or that they raise) is an     *)
(* input of the run, drawn from bounded sets.  Scores and thresholds are   *)
(* floats in the code; the model uses the integer levels 0..MaxScore,      *)
(* level 0 being 0.0, the one float that is falsy in Python.  Optional     *)
(* fields hold None (the empty tuple) or a one-element tuple <<v>>.        *)
(* Only the warning, error and exception log calls are recorded; info and  *)
(* debug calls change nothing the run reads.                               *)
(*                                                                         *)
(* The specifications share the variables:                                *)
(*   Spec          one run over injected strategy doubles;                 *)
(*   SpecSample    the same run over the three sample questions of         *)
(*                 tests/test_orchestrator.py;                             *)
(*   SpecStrategy  one retrieve_prompts batch on one strategy instance     *)
(*                 (similarity with its semaphore and per-question tasks,  *)
(*                 passthrough, or dynamic), without an orchestrator;      *)
(*   SpecPipeline  one run of the orchestrator over the real strategies;   *)
(*   SpecConstruct the construction of a similarity strategy from its      *)
(*                 search configuration, then one batch on the instance;   *)
(*   SpecRuns      either a run as in Spec or a batch as in SpecStrategy;  *)
(*   SpecShared    concurrent retrieve_prompts calls on one similarity     *)
(*                 strategy instance;                                      *)
(*   SpecLive      a run as in Spec or one batch as in SpecShared, under   *)
(*                 the fairness of the event loop and of the awaited calls.*)
(***************************************************************************)
EXTENDS Integers, Sequences, FiniteSets, TLC

VARIABLES
    config,                 \* OrchestratorConfig given to __init__
    passthrough_strategy,   \* TRUE iff a passthrough strategy was injected
    dynamic_strategy,       \* TRUE iff a dynamic strategy was injected
    pc,                     \* await point retrieve_prompts is suspended at
    questions,              \* result of _get_questions_for_template
    all_results,            \* local all_results
    unmatched_questions,    \* local unmatched_questions
    strategy_usage,         \* local strategy_usage
    calls,                  \* strategy invocations so far, in order
    written,                \* arguments of the write_matches calls so far
    metrics,                \* counts given to record_matched_questions
    log,                    \* warning / error / exception log calls
    span,                   \* the orchestrator_retrieve_prompts span
    raised,                 \* TRUE iff retrieve_prompts ended by raising
    construction,           \* the call of SimilaritySearchPromptStrategy(...)
    batches,                \* concurrent retrieve_prompts calls on one instance
    strat,                  \* the strategy instance a batch is run on
    request,                \* request.questions of that batch
    tasks,                  \* the _query_top1_for_question tasks of the batch
    semaphore,              \* free permits of self._semaphore
    batch_span,             \* the strategy's retrieve_prompts span
    output                  \* what the strategy's retrieve_prompts returned

orchestratorVars ==
    <<config, passthrough_strategy, dynamic_strategy, pc, questions,
      all_results, unmatched_questions, strategy_usage, calls, written,
      log, span, raised>>

strategyVars ==
    <<construction, batches, strat, request, tasks, semaphore, batch_span,
      output>>

vars == <<orchestratorVars, metrics, strategyVars>>

----------------------------------------------------------------------------
(* Bounds of the model *)

MaxQuestions == 2

MaxScore == 1

----------------------------------------------------------------------------
(* Data model *)

None == <<>>

Some(v) == <<v>>

ScoreLevels == 0 .. MaxScore

Thresholds == 0 .. (MaxScore + 1)

QuestionIds == 1 .. MaxQuestions

QuestionText(id) == <<"q", id>>

PromptText == <<"p">>

QuestionInput(id) ==
    [question_id |-> id, question_text |-> QuestionText(id)]

QuestionPromptMatch(id, text, found, score, prompt, err) ==
    [question_id |-> id, question_text |-> text, match_found |-> found,
     match_score |-> score, selected_prompt_text |-> prompt, error |-> err]

PromptRetrievalOutput(results) == [raised |-> FALSE, results |-> results]

StrategyRaised == [raised |-> TRUE, results |-> <<>>]

OrchestratorConfig ==
    [enable_dynamic_prompt : BOOLEAN,
     similarity_threshold : Thresholds,
     fallback_to_passthrough : BOOLEAN,
     fallback_to_dynamic : BOOLEAN]

----------------------------------------------------------------------------
(* Sequence helpers *)

Range(s) == {s[i] : i \in 1 .. Len(s)}

IdsOf(s) == [i \in 1 .. Len(s) |-> s[i].question_id]

CountFound(s) == Cardinality({i \in 1 .. Len(s) : s[i].match_found})

----------------------------------------------------------------------------
(* What the injected collaborators may return *)

\* The question source: the questions of the template, ids 1..n in order.
QuestionLists == {[i \in 1 .. n |-> QuestionInput(i)] : n \in 0 .. MaxQuestions}

\* A similarity match for question q carries q's id with any match_found and
\* any score; a document that echoes another id (the id before q's; 0 is the
\* id of no question) is modelled at the top score only.
SimilarityMatchesFor(q) ==
    {QuestionPromptMatch(q.question_id, q.question_text, found, score,
                         IF found \/ score # None THEN Some(PromptText) ELSE None,
                         None) :
        found \in BOOLEAN,
        score \in {None} \cup {Some(l) : l \in ScoreLevels}}
    \cup
    {QuestionPromptMatch(q.question_id - 1, q.question_text, TRUE,
                         Some(MaxScore), Some(PromptText), None)}

\* A fallback strategy answers a question with a match (score 1.0) or with
\* an error record.
FallbackMatchesFor(q) ==
    {QuestionPromptMatch(q.question_id, q.question_text, TRUE,
                         Some(MaxScore), Some(PromptText), None),
     QuestionPromptMatch(q.question_id, q.question_text, FALSE,
                         None, None, Some("error"))}

\* Per question, in input order: no result, or one of the matches above.
RECURSIVE ResultLists(_, _)
ResultLists(qs, similarity) ==
    IF qs = <<>> THEN {<<>>}
    ELSE LET first == {<<>>} \cup
                      {<<m>> : m \in IF similarity
                                     THEN SimilarityMatchesFor(Head(qs))
                                     ELSE FallbackMatchesFor(Head(qs))}
         IN  {h \o t : h \in first, t \in ResultLists(Tail(qs), similarity)}

StrategyOutcomes(qs, similarity) ==
    {StrategyRaised} \cup
    {PromptRetrievalOutput(r) : r \in ResultLists(qs, similarity)}

----------------------------------------------------------------------------
(* Pure parts of the orchestrator *)

\* Python truthiness of match.match_score: None and 0.0 are falsy.
Truthy(score) == score # None /\ score[1] # 0

\* orchestrator.py:233, the condition of the good_matches comprehension
IsGoodMatch_FoundOnly(match, threshold) == match.match_found

IsGoodMatch(match, threshold) ==
    /\ match.match_found
    /\ Truthy(match.match_score)
    /\ match.match_score[1] >= threshold

\* A partition that takes a question as matched when any result, good or
\* not, carries its id.
ProcessSimilarityResults_AnyResult(result, original_questions) ==
    IF result.results = <<>>
    THEN [matched |-> <<>>, remaining |-> original_questions]
    ELSE LET Good(m) == IsGoodMatch(m, config.similarity_threshold)
             result_ids == {m.question_id : m \in Range(result.results)}
             NotMatched(q) == q.question_id \notin result_ids
         IN  [matched |-> SelectSeq(result.results, Good),
              remaining |-> SelectSeq(original_questions, NotMatched)]

\* orchestrator.py:213-245
ProcessSimilarityResults(result, original_questions) ==
    IF result.results = <<>>
    THEN [matched |-> <<>>, remaining |-> original_questions]
    ELSE LET Good(m) == IsGoodMatch(m, config.similarity_threshold)
             good_matches == SelectSeq(result.results, Good)
             matched_question_ids == {m.question_id : m \in Range(good_matches)}
             NotMatched(q) == q.question_id \notin matched_question_ids
         IN  [matched |-> good_matches,
              remaining |-> SelectSeq(original_questions, NotMatched)]

\* A step 2 condition that ignores fallback_to_passthrough.
PassthroughEnabled_IgnoreFlag(unmatched) ==
    /\ unmatched # <<>>
    /\ passthrough_strategy

\* orchestrator.py:102
PassthroughEnabled(unmatched) ==
    /\ unmatched # <<>>
    /\ config.fallback_to_passthrough
    /\ passthrough_strategy

\* A run that goes from step 2 straight to the result sink.
DynamicEnabled_Never(unmatched) == FALSE

\* A step 3 condition that ignores enable_dynamic_prompt.
DynamicEnabled_IgnoreEnable(unmatched) ==
    /\ unmatched # <<>>
    /\ config.fallback_to_dynamic
    /\ dynamic_strategy

\* orchestrator.py:114-117
DynamicEnabled(unmatched) ==
    /\ unmatched # <<>>
    /\ config.enable_dynamic_prompt
    /\ config.fallback_to_dynamic
    /\ dynamic_strategy

\* A run that does not return early on an empty question list.
NoQuestions_NoEarlyReturn(qs) == FALSE

\* orchestrator.py:71
NoQuestions(qs) == qs = <<>>

\* orchestrator.py:105 and 121
FallbackHandled(result) == result.results # <<>>

\* A fallback stage that keeps unmatched the questions it got no result for.
RemainingAfterFallback_Unanswered(result, unmatched) ==
    LET Unanswered(q) == \A m \in Range(result.results) :
                            m.question_id # q.question_id
    IN  SelectSeq(unmatched, Unanswered)

\* A fallback stage that empties the unmatched list whatever came back.
RemainingAfterFallback_Always(result, unmatched) == <<>>

\* A fallback stage that re-checks match_found: only the questions answered
\* with a match leave the unmatched list.
RemainingAfterFallback_Recheck(result, unmatched) ==
    LET Answered(q) == \E m \in Range(result.results) :
                          m.question_id = q.question_id /\ m.match_found
        Open(q) == ~Answered(q)
    IN  SelectSeq(unmatched, Open)

\* orchestrator.py:105-108 and 121-124
RemainingAfterFallback(result, unmatched) ==
    IF FallbackHandled(result) THEN <<>> ELSE unmatched

\* A warning that lists the ids of all questions of the run.
UnmatchedIds_AllQuestions(unmatched) == IdsOf(questions)

\* orchestrator.py:131
UnmatchedIds(unmatched) == IdsOf(unmatched)

\* A step 4 that stores whatever was accumulated, even nothing.
HasResults_Always(results) == TRUE

\* orchestrator.py:136
HasResults(results) == results # <<>>

\* A metric that counts every written result.
TotalMatches_CountAll(results) == Len(results)

\* orchestrator.py:138
TotalMatches(results) == CountFound(results)

LogCall(level, event, ids) == [level |-> level, event |-> event, ids |-> ids]

\* An except block that logs the error but not the exception details.
FailureLog_ErrorOnly(lg, outcome, event) ==
    IF outcome.raised
    THEN Append(lg, LogCall("error", event, <<>>))
    ELSE lg

\* The error and exception calls of a _try_* except block, if it ran.
FailureLog(lg, outcome, event) ==
    IF outcome.raised
    THEN lg \o <<LogCall("error", event, <<>>), LogCall("exception", event, <<>>)>>
    ELSE lg

\* orchestrator.py:147-211: the strategy's output, or an empty output when
\* the strategy raised.
TryStrategy(outcome) ==
    IF outcome.raised THEN PromptRetrievalOutput(<<>>) ELSE outcome

StrategyCall(strategy, qs, outcome) ==
    [strategy |-> strategy, questions |-> qs, raised |-> outcome.raised,
     results |-> outcome.results]

----------------------------------------------------------------------------
(* retrieve_prompts, one action per await point *)

\* No strategy batch of its own: the orchestrator's strategies are injected.
NoBatch ==
    /\ construction = None
    /\ batches = <<>>
    /\ strat = None
    /\ request = <<>>
    /\ tasks = <<>>
    /\ semaphore = 0
    /\ batch_span = "none"
    /\ output = None

OrchestratorInit ==
    /\ config \in OrchestratorConfig
    /\ passthrough_strategy \in BOOLEAN
    /\ dynamic_strategy \in BOOLEAN
    /\ pc = "start"
    /\ questions = <<>>
    /\ all_results = <<>>
    /\ unmatched_questions = <<>>
    /\ strategy_usage = [similarity |-> 0, passthrough |-> 0, dynamic |-> 0]
    /\ calls = <<>>
    /\ written = <<>>
    /\ metrics = <<>>
    /\ log = <<>>
    /\ span = "none"
    /\ raised = FALSE

Init == OrchestratorInit /\ NoBatch

\* orchestrator.py:129-145, up to the await of _write_matches_to_store
ReportAndStore(unmatched, results, lg) ==
    LET reported ==
            IF unmatched # <<>>
            THEN Append(lg, LogCall("warning", "unmatched", UnmatchedIds(unmatched)))
            ELSE lg
    IN  IF HasResults(results)
        THEN /\ pc' = "write"
             /\ log' = reported
             /\ span' = span
        ELSE /\ pc' = "done"
             /\ log' = Append(reported, LogCall("warning", "no_matches", <<>>))
             /\ span' = "closed"

\* orchestrator.py:113-120, the condition of step 3
AfterPassthrough(unmatched, results, lg) ==
    IF DynamicEnabled(unmatched)
    THEN /\ pc' = "dynamic"
         /\ log' = lg
         /\ span' = span
    ELSE ReportAndStore(unmatched, results, lg)

\* orchestrator.py:101-104, the condition of step 2
AfterSimilarity(unmatched, results, lg) ==
    IF PassthroughEnabled(unmatched)
    THEN /\ pc' = "passthrough"
         /\ log' = lg
         /\ span' = span
    ELSE AfterPassthrough(unmatched, results, lg)

\* A first stage that is handed the questions last to first.
InitialUnmatched_Reversed(qs) == [i \in 1 .. Len(qs) |-> qs[Len(qs) + 1 - i]]

\* orchestrator.py:85, unmatched_questions = list(questions)
InitialUnmatched(qs) == qs

\* orchestrator.py:63-90: the span is opened, the question source answers
\* with one of the given lists
GetQuestionsFrom(lists) ==
    /\ pc = "start"
    /\ \E qs \in lists :
          /\ questions' = qs
          /\ IF NoQuestions(qs)
             THEN /\ log' = Append(log, LogCall("warning", "no_questions", <<>>))
                  /\ pc' = "done"
                  /\ span' = "closed"
                  /\ UNCHANGED <<all_results, unmatched_questions>>
             ELSE /\ all_results' = <<>>
                  /\ unmatched_questions' = InitialUnmatched(qs)
                  /\ IF qs # <<>>
                     THEN /\ pc' = "similarity"
                          /\ span' = "open"
                          /\ UNCHANGED log
                     ELSE AfterSimilarity(qs, <<>>, log)
    /\ UNCHANGED <<config, passthrough_strategy, dynamic_strategy,
                   strategy_usage, calls, written, metrics, raised,
                   strategyVars>>

\* record_matched_questions at the end of a real strategy's retrieve_prompts;
\* an injected strategy double records no metric
StrategyRecorded(real, outcome) ==
    IF real THEN Append(metrics, CountFound(outcome.results)) ELSE metrics

\* orchestrator.py:90-99: the similarity strategy returns or raises with one
\* of the given outcomes; real tells whether it is a real strategy
SimilarityStageWith(outcomes, real) ==
    /\ pc = "similarity"
    /\ \E outcome \in outcomes :
          LET similarity_result == TryStrategy(outcome)
              processed == ProcessSimilarityResults(similarity_result,
                                                    unmatched_questions)
              results == all_results \o processed.matched
          IN  /\ calls' = Append(calls, StrategyCall("similarity",
                                                     unmatched_questions, outcome))
              /\ metrics' = StrategyRecorded(real, outcome)
              /\ all_results' = results
              /\ unmatched_questions' = processed.remaining
              /\ strategy_usage' = [strategy_usage EXCEPT
                                       !.similarity = Len(processed.matched)]
              /\ AfterSimilarity(processed.remaining, results,
                                 FailureLog(log, outcome, "similarity"))
    /\ UNCHANGED <<config, passthrough_strategy, dynamic_strategy, questions,
                   written, raised, strategyVars>>

\* orchestrator.py:104-111: the passthrough strategy returns or raises with one
\* of the given outcomes; real tells whether it is a real strategy
PassthroughStageWith(outcomes, real) ==
    /\ pc = "passthrough"
    /\ \E outcome \in outcomes :
          LET passthrough_result == TryStrategy(outcome)
              handled == FallbackHandled(passthrough_result)
              results == IF handled
                         THEN all_results \o passthrough_result.results
                         ELSE all_results
              unmatched == RemainingAfterFallback(passthrough_result,
                                                  unmatched_questions)
          IN  /\ calls' = Append(calls, StrategyCall("passthrough",
                                                     unmatched_questions, outcome))
              /\ metrics' = StrategyRecorded(real, outcome)
              /\ all_results' = results
              /\ unmatched_questions' = unmatched
              /\ strategy_usage' =
                    IF handled
                    THEN [strategy_usage EXCEPT
                            !.passthrough = Len(passthrough_result.results)]
                    ELSE strategy_usage
              /\ AfterPassthrough(unmatched, results,
                                  FailureLog(log, outcome, "passthrough"))
    /\ UNCHANGED <<config, passthrough_strategy, dynamic_strategy, questions,
                   written, raised, strategyVars>>

\* orchestrator.py:120-127: the dynamic strategy returns or raises with one
\* of the given outcomes; real tells whether it is a real strategy
DynamicStageWith(outcomes, real) ==
    /\ pc = "dynamic"
    /\ \E outcome \in outcomes :
          LET dynamic_result == TryStrategy(outcome)
              handled == FallbackHandled(dynamic_result)
              results == IF handled
                         THEN all_results \o dynamic_result.results
                         ELSE all_results
              unmatched == RemainingAfterFallback(dynamic_result,
                                                  unmatched_questions)
          IN  /\ calls' = Append(calls, StrategyCall("dynamic",
                                                     unmatched_questions, outcome))
              /\ metrics' = StrategyRecorded(real, outcome)
              /\ all_results' = results
              /\ unmatched_questions' = unmatched
              /\ strategy_usage' =
                    IF handled
                    THEN [strategy_usage EXCEPT
                            !.dynamic = Len(dynamic_result.results)]
                    ELSE strategy_usage
              /\ ReportAndStore(unmatched, results,
                                FailureLog(log, outcome, "dynamic"))
    /\ UNCHANGED <<config, passthrough_strategy, dynamic_strategy, questions,
                   written, raised, strategyVars>>

\* orchestrator.py:137-143: the metric is recorded after the awaited
\* write_matches, so only when it returned
MetricsAfterWrite_Always(recorded, stored, results) ==
    Append(recorded, TotalMatches(results))

MetricsAfterWrite(recorded, stored, results) ==
    IF stored THEN Append(recorded, TotalMatches(results)) ELSE recorded

\* A span that is ended on a normal exit only.
SpanOnExit_LeakOnError(failed) == IF failed THEN "open" ELSE "closed"

\* telemetry.py:132-139 under orchestrator.py:65-68: the with statement ends
\* the span when its body returns and when an exception leaves it
SpanOnExit(failed) == "closed"

\* orchestrator.py:137-143: the result sink stores the matches or raises
WriteMatches ==
    /\ pc = "write"
    /\ written' = Append(written, all_results)
    /\ \E stored \in BOOLEAN :
          /\ metrics' = MetricsAfterWrite(metrics, stored, all_results)
          /\ raised' = ~stored
          /\ span' = SpanOnExit(~stored)
    /\ pc' = "done"
    /\ UNCHANGED <<config, passthrough_strategy, dynamic_strategy, questions,
                   all_results, unmatched_questions, strategy_usage, calls, log,
                   strategyVars>>

GetQuestions == GetQuestionsFrom(QuestionLists)

SimilarityStage ==
    SimilarityStageWith(StrategyOutcomes(unmatched_questions, TRUE),
                        FALSE)

PassthroughStage ==
    PassthroughStageWith(StrategyOutcomes(unmatched_questions, FALSE),
                         FALSE)

DynamicStage ==
    DynamicStageWith(StrategyOutcomes(unmatched_questions, FALSE),
                     FALSE)

Next ==
    \/ GetQuestions
    \/ SimilarityStage
    \/ PassthroughStage
    \/ DynamicStage
    \/ WriteMatches

Spec == Init /\ [][Next]_vars

----------------------------------------------------------------------------
(* The run of test_retrieve_prompts_similarity_only_success and its kin: *)
(* the question source answers with the three sample questions            *)

sample_questions == [i \in 1 .. 3 |-> QuestionInput(i)]

GetSampleQuestions == GetQuestionsFrom({sample_questions})

SampleNext ==
    \/ GetSampleQuestions
    \/ SimilarityStage
    \/ PassthroughStage
    \/ DynamicStage
    \/ WriteMatches

SpecSample == Init /\ [][SampleNext]_vars

----------------------------------------------------------------------------
(* Vocabulary of the properties *)

\* The strategy's call has completed (returned or raised).
Called(strategy) == \E i \in 1 .. Len(calls) : calls[i].strategy = strategy

\* The strategy was invoked: its call is in progress or has completed.
Invoked(strategy) == pc = strategy \/ Called(strategy)

LogCount(level) == Cardinality({i \in 1 .. Len(log) : log[i].level = level})

EventCount(level, event) ==
    Cardinality({i \in 1 .. Len(log) :
                    log[i].level = level /\ log[i].event = event})

\* The similarity stage has completed.
SimilarityDone == Len(calls) >= 1

\* What the similarity strategy returned (nothing when it raised).
SimilarityResults == calls[1].results

\* The documented good-match rule of the similarity stage.
DocumentedGoodMatch(m) ==
    /\ m.match_found
    /\ m.match_score # None
    /\ m.match_score[1] >= config.similarity_threshold

\* The results the similarity stage contributed to all_results.
SimilarityPart == SubSeq(all_results, 1, strategy_usage.similarity)

----------------------------------------------------------------------------
(* C1: when the question source returns an empty sequence, no strategy is  *)
(* invoked, write_matches is never called, and the run ends after logging  *)
(* one warning.                                                            *)
C1_EmptySourceEndsRun ==
    (pc # "start" /\ questions = <<>>) =>
        /\ pc = "done"
        /\ calls = <<>>
        /\ written = <<>>
        /\ metrics = <<>>
        /\ ~raised
        /\ log = <<[level |-> "warning", event |-> "no_questions", ids |-> <<>>]>>

C1_Witness == pc = "done" /\ questions = <<>> /\ Len(log) = 1 /\ span = "closed"

----------------------------------------------------------------------------
(* C2: after the similarity stage the questions handed on are exactly the  *)
(* input questions whose id is not the id of a good match the stage kept,  *)
(* in input order; the passthrough strategy is invoked with exactly those  *)
(* questions; when similarity returns no results every input question is   *)
(* handed on.                                                              *)
C2_UnmatchedAfterSimilarity ==
    SimilarityDone =>
        LET kept_ids == {m.question_id : m \in Range(SimilarityPart)}
            NoGoodMatch(q) == q.question_id \notin kept_ids
            handed == SelectSeq(questions, NoGoodMatch)
        IN  /\ calls[1].strategy = "similarity"
            /\ calls[1].questions = questions
            /\ Len(calls) = 1 => unmatched_questions = handed
            /\ \A i \in 1 .. Len(calls) :
                  calls[i].strategy = "passthrough" =>
                      /\ calls[i].questions = handed
                      /\ \A q \in Range(calls[i].questions) :
                            q.question_id \notin kept_ids
            /\ SimilarityResults = <<>> =>
                  /\ handed = questions
                  /\ Len(calls) = 1 => unmatched_questions = questions

C2_Witness ==
    /\ pc = "done"
    /\ Len(questions) = 2
    /\ strategy_usage.similarity = 1
    /\ \E i \in 1 .. Len(calls) :
          /\ calls[i].strategy = "passthrough"
          /\ Len(calls[i].questions) = 1

----------------------------------------------------------------------------
(* C3: a similarity-stage result is kept as a good match, and later        *)
(* written, if and only if match_found is true, match_score is not null    *)
(* and match_score >= the orchestrator's similarity_threshold, for every   *)
(* numeric score and every threshold; every other similarity-stage result  *)
(* is absent from the written results.                                     *)
C3_GoodMatchRule ==
    SimilarityDone =>
        /\ SimilarityPart = SelectSeq(SimilarityResults, DocumentedGoodMatch)
        /\ \A i \in 1 .. Len(written) :
              SubSeq(written[i], 1, strategy_usage.similarity)
                  = SelectSeq(SimilarityResults, DocumentedGoodMatch)

\* The questions without a kept good match, in input order.
UnmatchedAfterSimilarity ==
    LET kept_ids == {m.question_id : m \in Range(SimilarityPart)}
        NoGoodMatch(q) == q.question_id \notin kept_ids
    IN  SelectSeq(questions, NoGoodMatch)

\* What the strategy's call returned (nothing when it raised or never ran).
ResultsOf(strategy) ==
    IF Called(strategy)
    THEN calls[CHOOSE i \in 1 .. Len(calls) : calls[i].strategy = strategy].results
    ELSE <<>>

PassthroughFlags == config.fallback_to_passthrough /\ passthrough_strategy

DynamicFlags ==
    config.enable_dynamic_prompt /\ config.fallback_to_dynamic /\ dynamic_strategy

\* The passthrough stage is over: it was skipped or its call has completed.
PassthroughDone == SimilarityDone /\ pc # "passthrough"

UnmatchedAfterPassthrough ==
    IF ResultsOf("passthrough") # <<>> THEN <<>> ELSE UnmatchedAfterSimilarity

----------------------------------------------------------------------------
(* C4: when the passthrough stage returns a non-empty result list, all of  *)
(* its results are appended to the final results whatever their            *)
(* match_found, the unmatched set becomes empty, and the dynamic stage is  *)
(* not run in that run.                                                    *)
C4_PassthroughClobbers ==
    \A i \in 1 .. Len(calls) :
        (calls[i].strategy = "passthrough" /\ calls[i].results # <<>>) =>
            /\ all_results = SimilarityPart \o calls[i].results
            /\ unmatched_questions = <<>>
            /\ ~Invoked("dynamic")
            /\ pc \in {"write", "done"}
            /\ EventCount("warning", "unmatched") = 0
            /\ \A j \in 1 .. Len(written) : written[j] = all_results

C4_Witness ==
    /\ pc = "done"
    /\ DynamicFlags
    /\ \E i \in 1 .. Len(calls) :
          /\ calls[i].strategy = "passthrough"
          /\ Len(calls[i].questions) = 2
          /\ Len(calls[i].results) = 1
          /\ ~calls[i].results[1].match_found
    /\ Len(written) = 1

----------------------------------------------------------------------------
(* C5: the passthrough strategy is invoked if and only if                  *)
(* fallback_to_passthrough is true, a passthrough strategy was injected    *)
(* and a question is still unmatched after the similarity stage; it        *)
(* receives only the remaining unmatched questions.                        *)
C5_PassthroughInvokedIff ==
    /\ ~SimilarityDone => ~Invoked("passthrough")
    /\ SimilarityDone =>
          /\ Invoked("passthrough") <=>
                (PassthroughFlags /\ UnmatchedAfterSimilarity # <<>>)
          /\ pc = "passthrough" => unmatched_questions = UnmatchedAfterSimilarity
          /\ \A i \in 1 .. Len(calls) :
                calls[i].strategy = "passthrough" =>
                    /\ calls[i].questions = UnmatchedAfterSimilarity
                    /\ \A j \in 1 .. Len(calls) :
                          calls[j].strategy = "passthrough" => j = i

C5_Witness ==
    /\ pc = "done"
    /\ Called("passthrough")
    /\ Len(questions) = 2
    /\ Len(UnmatchedAfterSimilarity) = 1
    /\ ~config.enable_dynamic_prompt

----------------------------------------------------------------------------
(* C6: the dynamic strategy is invoked if and only if                      *)
(* enable_dynamic_prompt and fallback_to_dynamic are true, a dynamic       *)
(* strategy was injected and a question is still unmatched after the       *)
(* similarity and passthrough stages; a non-empty result list is appended  *)
(* whole and empties the unmatched set.                                    *)
C6_DynamicInvokedIff ==
    /\ ~PassthroughDone => ~Invoked("dynamic")
    /\ PassthroughDone =>
          /\ Invoked("dynamic") <=>
                (DynamicFlags /\ UnmatchedAfterPassthrough # <<>>)
          /\ pc = "dynamic" => unmatched_questions = UnmatchedAfterPassthrough
          /\ \A i \in 1 .. Len(calls) :
                calls[i].strategy = "dynamic" =>
                    /\ calls[i].questions = UnmatchedAfterPassthrough
                    /\ calls[i].results # <<>> =>
                          /\ all_results = SimilarityPart \o calls[i].results
                          /\ unmatched_questions = <<>>
                    /\ \A j \in 1 .. Len(calls) :
                          calls[j].strategy = "dynamic" => j = i

C6_Witness ==
    /\ pc = "done"
    /\ Called("passthrough")
    /\ ResultsOf("dynamic") # <<>>
    /\ unmatched_questions = <<>>
    /\ Len(written) = 1

\* The number of strategy calls that raised.
RaisedCalls == Cardinality({i \in 1 .. Len(calls) : calls[i].raised})

\* The results the stages handed to the orchestrator, in stage order.
Accumulated ==
    SimilarityPart \o ResultsOf("passthrough") \o ResultsOf("dynamic")

NoFallbackEnabled == ~PassthroughFlags /\ ~DynamicFlags

----------------------------------------------------------------------------
(* C7: when the strategy call of a stage raises, the orchestrator logs     *)
(* error and exception once, the stage contributes no results and leaves   *)
(* the unmatched set unchanged, the next enabled stage runs, and the       *)
(* exception does not leave retrieve_prompts.                              *)
C7_StageFailureIsolated ==
    /\ LogCount("error") = RaisedCalls
    /\ LogCount("exception") = RaisedCalls
    /\ raised => (pc = "done" /\ Len(written) = 1)
    /\ \A i \in 1 .. Len(calls) :
          calls[i].raised =>
              LET stage == calls[i].strategy
              IN  /\ EventCount("error", stage) = 1
                  /\ EventCount("exception", stage) = 1
                  /\ strategy_usage[stage] = 0
                  /\ all_results = Accumulated
                  /\ IF i < Len(calls)
                     THEN calls[i + 1].questions = calls[i].questions
                     ELSE unmatched_questions = calls[i].questions
                  /\ stage = "similarity" =>
                        /\ Invoked("passthrough") <=> PassthroughFlags
                        /\ ~PassthroughFlags => (Invoked("dynamic") <=> DynamicFlags)
                  /\ (stage = "passthrough" /\ pc # "passthrough") =>
                        (Invoked("dynamic") <=> DynamicFlags)
                  /\ (stage = "dynamic") => pc \in {"write", "done"}

C7_Witness ==
    /\ pc = "done"
    /\ ~raised
    /\ Len(calls) = 3
    /\ ~calls[1].raised
    /\ calls[2].raised
    /\ calls[3].results # <<>>
    /\ Len(written) = 1

----------------------------------------------------------------------------
(* C8: when the similarity strategy raises and no fallback stage is        *)
(* enabled, write_matches is never called and the error log and the        *)
(* exception log are each emitted exactly once.                            *)
C8_SimilarityFailureNoFallback ==
    (SimilarityDone /\ calls[1].raised /\ NoFallbackEnabled) =>
        /\ pc = "done"
        /\ Len(calls) = 1
        /\ written = <<>>
        /\ metrics = <<>>
        /\ ~raised
        /\ LogCount("error") = 1
        /\ LogCount("exception") = 1

C8_Witness ==
    /\ pc = "done"
    /\ SimilarityDone
    /\ calls[1].raised
    /\ NoFallbackEnabled
    /\ Len(questions) = 2
    /\ LogCount("warning") = 2

----------------------------------------------------------------------------
(* C9: at the end of a run with at least one question, write_matches is    *)
(* called, once and with all results accumulated across the stages, if and *)
(* only if these are non-empty, and when it returns the orchestrator       *)
(* records the number of results with match_found=true exactly once; with  *)
(* no results there is no write, no metric, and a warning.                 *)
C9_PersistAndMetric ==
    (pc = "done" /\ questions # <<>>) =>
        LET Found(m) == m.match_found
        IN  /\ all_results = Accumulated
            /\ written # <<>> <=> all_results # <<>>
            /\ Len(written) <= 1
            /\ written # <<>> =>
                  /\ written[1] = all_results
                  /\ EventCount("warning", "no_matches") = 0
                  /\ IF raised
                     THEN metrics = <<>>
                     ELSE metrics = <<Len(SelectSeq(written[1], Found))>>
            /\ written = <<>> =>
                  /\ metrics = <<>>
                  /\ ~raised
                  /\ EventCount("warning", "no_matches") = 1
                  /\ log[Len(log)].event = "no_matches"

C9_Witness ==
    /\ pc = "done"
    /\ ~raised
    /\ Len(written) = 1
    /\ Len(written[1]) = 2
    /\ metrics = <<1>>

----------------------------------------------------------------------------
(* C10: the questions still unmatched after all enabled stages are listed  *)
(* by id in a single warning; no record is made up for them in the written *)
(* results, no error is logged and no exception is raised for them.        *)
C10_UnmatchedReported ==
    (pc \in {"write", "done"} /\ questions # <<>>) =>
        /\ unmatched_questions =
              IF ResultsOf("dynamic") # <<>> THEN <<>> ELSE UnmatchedAfterPassthrough
        /\ EventCount("warning", "unmatched") =
              IF unmatched_questions # <<>> THEN 1 ELSE 0
        /\ \A i \in 1 .. Len(log) :
              log[i].event = "unmatched" =>
                  /\ log[i].level = "warning"
                  /\ log[i].ids = [k \in 1 .. Len(unmatched_questions) |->
                                      unmatched_questions[k].question_id]
        /\ LogCount("error") = RaisedCalls
        /\ raised => Len(written) = 1
        /\ \A r \in Range(all_results) :
              /\ \E i \in 1 .. Len(calls) : r \in Range(calls[i].results)
              /\ \A q \in Range(unmatched_questions) :
                    r.question_id # q.question_id
        /\ \A j \in 1 .. Len(written) : written[j] = all_results

C10_Witness ==
    /\ pc = "done"
    /\ Len(questions) = 2
    /\ Len(unmatched_questions) = 1
    /\ Len(written) = 1
    /\ EventCount("warning", "unmatched") = 1

----------------------------------------------------------------------------
(* The strategies: data *)

MaxParallel == 2

\* match_score=1.0 of the passthrough and dynamic strategies
PerfectScore == Some(MaxScore)

\* A text is a sequence of words.  A literal word is <<s>>, a question's text
\* is the one word QuestionText(id), a replacement field {name} of a format
\* template is <<"{", name, "}">>.
Word(s) == <<s>>

Field(name) == <<"{", name, "}">>

IsField(word) == Len(word) = 3

\* Python truthiness of an optional string: None and "" are falsy.
TruthyText(text) == text # None /\ text[1] # <<>>

\* The prompt text stored with a document of the search index.
LibraryPrompt == <<Word("p")>>

\* The question text stored with a document of the search index.
LibraryQuestionText == <<"q", 0>>

\* A value of "@search.score" that is neither int nor float.
NonNumericScore == <<"n/a", "str">>

NumericScores == {Some(l) : l \in ScoreLevels}

\* A questionText stored as the empty string.
EmptyText == <<>>

\* The top-1 document the index may return for question q: one that echoes
\* q's id or none and may lack any other field, one with a score that is no
\* number, one with every field that echoes the id before q's (0 is no
\* question's id), or one whose questionText is the empty string.
DocumentsFor(q) ==
    [score : {None} \cup NumericScores,
     promptText : {None, Some(LibraryPrompt)},
     questionText : {None, Some(LibraryQuestionText)},
     questionId : {None, Some(q.question_id)}]
    \cup
    {[score |-> NonNumericScore, promptText |-> Some(LibraryPrompt),
      questionText |-> None, questionId |-> None]}
    \cup
    [score : NumericScores,
     promptText : {Some(LibraryPrompt)},
     questionText : {Some(LibraryQuestionText)},
     questionId : {Some(q.question_id - 1)}]
    \cup
    {[score |-> Some(MaxScore), promptText |-> Some(LibraryPrompt),
      questionText |-> Some(EmptyText), questionId |-> Some(q.question_id)]}

\* What the awaited search and the iteration over its results may do.
SearchResponsesFor(q) ==
    {[raises |-> e, documents |-> <<>>] :
        e \in {"none", "HttpResponseError", "AzureError", "Exception"}}
    \cup
    {[raises |-> "none", documents |-> <<doc>>] : doc \in DocumentsFor(q)}

AzureAISearchConfig == [similarity_threshold : Thresholds]

SimilaritySearchPromptStrategy ==
    [kind : {"similarity"},
     config : AzureAISearchConfig,
     max_parallel_requests : 1 .. MaxParallel]

FormatTemplates ==
    {None, Some(<<>>),
     Some(<<Word("Answer:"), Field("question")>>),
     Some(<<Word("Answer:"), Field("context")>>)}

PassthroughPromptConfig ==
    [prefix : {None, Some(<<>>), Some(<<Word("pre")>>)},
     suffix : {None, Some(<<Word("suf")>>)},
     format_template : FormatTemplates]

PassthroughPromptStrategy ==
    [kind : {"passthrough"}, config : PassthroughPromptConfig]

DynamicPromptStrategy == [kind : {"dynamic"}]

----------------------------------------------------------------------------
(* The similarity strategy: pure parts *)

\* What a coroutine hands to gather: a returned match, or the exception it
\* ended with.
Returned(match) == [exception |-> FALSE, match |-> match]

Escaped(match) == [exception |-> TRUE, match |-> match]

\* An error record that is flagged as found.
NotFound_FoundWithError(q, err) ==
    QuestionPromptMatch(q.question_id, q.question_text, err # None, None, None,
                        err)

NotFound_DropsError(q, err) ==
    QuestionPromptMatch(q.question_id, q.question_text, FALSE, None, None, None)

NotFound(q, err) ==
    QuestionPromptMatch(q.question_id, q.question_text, FALSE, None, None, err)

\* strategy.py:128, isinstance(score, (int, float))
IsNumeric(score) == score # None /\ score # NonNumericScore

\* value or default, for an id: no falsy id is among the ids of the model
OrElse(value, default) == IF value # None THEN value[1] ELSE default

\* text or default: None and the empty string are falsy
TextOrElse(text, default) == IF TruthyText(text) THEN text[1] ELSE default

\* A match that keeps the score and the prompt of a found document only.
MatchFromDocument_BlankBelow(q, doc, cfg) ==
    LET match_found ==
            /\ IsNumeric(doc.score)
            /\ doc.score[1] >= cfg.similarity_threshold
    IN  QuestionPromptMatch(OrElse(doc.questionId, q.question_id),
                            TextOrElse(doc.questionText, q.question_text),
                            match_found,
                            IF match_found THEN doc.score ELSE None,
                            IF match_found THEN doc.promptText ELSE None,
                            None)

\* strategy.py:119-142, the match built from the first document
MatchFromDocument_NoThreshold(q, doc, cfg) ==
    QuestionPromptMatch(OrElse(doc.questionId, q.question_id),
                        TextOrElse(doc.questionText, q.question_text),
                        IsNumeric(doc.score),
                        IF IsNumeric(doc.score) THEN doc.score ELSE None,
                        doc.promptText, None)

MatchFromDocument(q, doc, cfg) ==
    LET numeric_score == IF IsNumeric(doc.score) THEN doc.score ELSE None
        match_found ==
            /\ IsNumeric(doc.score)
            /\ doc.score[1] >= cfg.similarity_threshold
    IN  QuestionPromptMatch(OrElse(doc.questionId, q.question_id),
                            TextOrElse(doc.questionText, q.question_text),
                            match_found, numeric_score, doc.promptText, None)

\* strategy.py:89-169, the body of _query_top1_for_question under the permit
QueryTop1ForQuestion_Unhandled(q, response, cfg) ==
    IF response.raises = "Exception"
    THEN Escaped(NotFound(q, Some("error")))
    ELSE IF response.raises # "none"
         THEN Returned(NotFound(q, Some("error")))
         ELSE IF response.documents = <<>>
              THEN Returned(NotFound(q, None))
              ELSE Returned(MatchFromDocument(q, Head(response.documents),
                                              cfg))

QueryTop1ForQuestion(q, response, cfg) ==
    IF response.raises # "none"
    THEN Returned(NotFound(q, Some("error")))
    ELSE IF response.documents = <<>>
         THEN Returned(NotFound(q, None))
         ELSE Returned(MatchFromDocument(q, Head(response.documents), cfg))

\* strategy.py:69-73, gather's results without the exceptions
GatheredResults(results) ==
    LET Kept(i) == ~results[i].exception
        RECURSIVE From(_)
        From(i) ==
            IF i > Len(results) THEN <<>>
            ELSE IF Kept(i) THEN <<results[i].match>> \o From(i + 1)
                 ELSE From(i + 1)
    IN  From(1)

----------------------------------------------------------------------------
(* The passthrough and dynamic strategies: pure parts *)

\* str.format(question=question_text): a replacement field other than
\* {question} raises.
FormatRaises(template) ==
    \E i \in 1 .. Len(template) :
        IsField(template[i]) /\ template[i] # Field("question")

Format(template, question_text) ==
    [i \in 1 .. Len(template) |->
        IF template[i] = Field("question") THEN question_text ELSE template[i]]

\* passthrough/strategy.py:100-123
FormatQuestionAsPrompt(cfg, question_text) ==
    LET templated ==
            IF TruthyText(cfg.format_template)
            THEN Format(cfg.format_template[1], question_text)
            ELSE <<question_text>>
        prefixed ==
            IF TruthyText(cfg.prefix)
            THEN cfg.prefix[1] \o <<Word(" ")>> \o templated
            ELSE templated
    IN  IF TruthyText(cfg.suffix)
        THEN prefixed \o <<Word(" ")>> \o cfg.suffix[1]
        ELSE prefixed

FormatQuestionRaises(cfg) ==
    TruthyText(cfg.format_template) /\ FormatRaises(cfg.format_template[1])

\* passthrough/strategy.py:62-84, one iteration of the loop
PassthroughMatch(cfg, q) ==
    IF FormatQuestionRaises(cfg)
    THEN NotFound(q, Some("error"))
    ELSE QuestionPromptMatch(q.question_id, q.question_text, TRUE, PerfectScore,
                             Some(FormatQuestionAsPrompt(cfg, q.question_text)),
                             None)

\* passthrough/strategy.py:57-84, the loop over request.questions
PassthroughMatches_StopAtError(cfg, qs) ==
    IF FormatQuestionRaises(cfg) THEN <<>>
    ELSE [i \in 1 .. Len(qs) |-> PassthroughMatch(cfg, qs[i])]

\* A loop that puts each new match in front of the earlier ones.
PassthroughMatches_Prepend(cfg, qs) ==
    [i \in 1 .. Len(qs) |-> PassthroughMatch(cfg, qs[Len(qs) + 1 - i])]

PassthroughMatches(cfg, qs) ==
    [i \in 1 .. Len(qs) |-> PassthroughMatch(cfg, qs[i])]

\* dynamic_prompt/strategy.py:71
GeneratedPrompt(question_text) ==
    <<Word("[AI-Generated] Please provide a comprehensive response to: "),
      question_text>>

\* dynamic_prompt/strategy.py:69-91, one iteration of the loop; fails tells
\* whether generating the prompt raised.
DynamicMatch_NoError(q, fails) ==
    IF fails
    THEN NotFound(q, None)
    ELSE QuestionPromptMatch(q.question_id, q.question_text, TRUE, PerfectScore,
                             Some(GeneratedPrompt(q.question_text)), None)

DynamicMatch(q, fails) ==
    IF fails
    THEN NotFound(q, Some("error"))
    ELSE QuestionPromptMatch(q.question_id, q.question_text, TRUE, PerfectScore,
                             Some(GeneratedPrompt(q.question_text)), None)

\* dynamic_prompt/strategy.py:64-91, the loop over request.questions
DynamicMatches(qs, failing) ==
    [i \in 1 .. Len(qs) |-> DynamicMatch(qs[i], i \in failing)]

\* What generating the prompt of each question did, kept for the properties.
Generations(qs, failing) ==
    [i \in 1 .. Len(qs) |->
        [state |-> "done",
         response |-> Some([raises |-> IF i \in failing THEN "Exception"
                                                        ELSE "none",
                            documents |-> <<>>]),
         result |-> Some(Returned(DynamicMatch(qs[i], i \in failing)))]]

----------------------------------------------------------------------------
(* One batch on one strategy instance *)

PendingTask == [state |-> "pending", response |-> None, result |-> None]

\* No orchestrator around the strategy: retrieve_prompts is called directly.
NoOrchestrator ==
    /\ config = [enable_dynamic_prompt |-> FALSE, similarity_threshold |-> 0,
                 fallback_to_passthrough |-> FALSE,
                 fallback_to_dynamic |-> FALSE]
    /\ passthrough_strategy = FALSE
    /\ dynamic_strategy = FALSE
    /\ pc = "none"
    /\ questions = <<>>
    /\ all_results = <<>>
    /\ unmatched_questions = <<>>
    /\ strategy_usage = [similarity |-> 0, passthrough |-> 0, dynamic |-> 0]
    /\ calls = <<>>
    /\ written = <<>>
    /\ log = <<>>
    /\ span = "none"
    /\ raised = FALSE

StrategyInit ==
    /\ \/ strat \in SimilaritySearchPromptStrategy
       \/ strat \in PassthroughPromptStrategy
       \/ strat \in DynamicPromptStrategy
    /\ construction = None
    /\ batches = <<>>
    /\ request \in QuestionLists
    /\ tasks = <<>>
    /\ semaphore = IF strat.kind = "similarity"
                   THEN strat.max_parallel_requests ELSE 0
    /\ batch_span = "none"
    /\ output = None
    /\ metrics = <<>>
    /\ NoOrchestrator

\* retrieve_prompts is a method: it runs on an instance that exists
Instance(kind) == strat # None /\ strat.kind = kind

InFlight == {i \in 1 .. Len(tasks) : tasks[i].state = "in_flight"}

\* A wait that returns as soon as no search call is in flight.
AllDone_NoneInFlight == InFlight = {}

\* similarity_search/strategy.py:67, await asyncio.gather(*tasks) returns
\* when every task has ended
AllDone == \A i \in 1 .. Len(tasks) : tasks[i].state = "done"

\* A fan-in that lists what the tasks handed over last task first.
Completions_Reversed(ts) ==
    LET Ended(t) == t.state = "done"
        ended == SelectSeq(ts, Ended)
    IN  [i \in 1 .. Len(ended) |-> ended[Len(ended) + 1 - i].result[1]]

\* What the tasks that have ended handed to gather, in task order.
Completions(ts) ==
    LET Ended(t) == t.state = "done"
        ended == SelectSeq(ts, Ended)
    IN  [i \in 1 .. Len(ended) |-> ended[i].result[1]]

\* similarity_search/strategy.py:53-67, up to the await of gather
StartBatch ==
    /\ Instance("similarity")
    /\ batch_span = "none"
    /\ tasks' = [i \in 1 .. Len(request) |-> PendingTask]
    /\ batch_span' = "open"
    /\ UNCHANGED <<orchestratorVars, metrics, construction, batches, strat,
                   request, semaphore, output>>

\* similarity_search/strategy.py:86, a coroutine enters the async with only
\* while the semaphore has a free permit
CanAcquire_Unlimited(permits) == TRUE

\* A limiter that keeps its last permit to itself.
CanAcquire_KeepsOne(permits) == permits > 1

CanAcquire(permits) == permits > 0

\* A limiter whose permit is given back only when the search call returned.
Released_LeakOnError(permits, response) ==
    IF response.raises # "none" THEN permits ELSE permits + 1

\* similarity_search/strategy.py:86, async with self._semaphore (exit): the
\* permit is given back whether the body returned or raised
Released(permits, response) == permits + 1

\* similarity_search/strategy.py:86, async with self._semaphore (enter)
Acquire(i) ==
    /\ Instance("similarity")
    /\ tasks[i].state = "pending"
    /\ CanAcquire(semaphore)
    /\ semaphore' = semaphore - 1
    /\ tasks' = [tasks EXCEPT ![i].state = "in_flight"]
    /\ UNCHANGED <<orchestratorVars, metrics, construction, batches, strat,
                   request, batch_span, output>>

\* similarity_search/strategy.py:99-169, the search call ends and the
\* coroutine runs to its end, leaving the async with
Complete(i) ==
    /\ Instance("similarity")
    /\ tasks[i].state = "in_flight"
    /\ \E response \in SearchResponsesFor(request[i]) :
          /\ tasks' = [tasks EXCEPT ![i] =
                         [state |-> "done", response |-> Some(response),
                          result |-> Some(QueryTop1ForQuestion(
                                             request[i], response,
                                             strat.config))]]
          /\ semaphore' = Released(semaphore, response)
    /\ UNCHANGED <<orchestratorVars, metrics, construction, batches, strat,
                   request, batch_span, output>>

\* similarity_search/strategy.py:67-83, gather returns
Gather ==
    /\ Instance("similarity")
    /\ batch_span = "open"
    /\ AllDone
    /\ LET results == GatheredResults(Completions(tasks))
       IN  /\ output' = Some(PromptRetrievalOutput(results))
           /\ metrics' = Append(metrics, CountFound(results))
    /\ batch_span' = "closed"
    /\ UNCHANGED <<orchestratorVars, construction, batches, strat,
                   request, tasks, semaphore>>

\* passthrough/strategy.py:38-98
PassthroughRetrievePrompts ==
    /\ Instance("passthrough")
    /\ batch_span = "none"
    /\ LET matches == PassthroughMatches(strat.config, request)
       IN  /\ output' = Some(PromptRetrievalOutput(matches))
           /\ metrics' = Append(metrics, CountFound(matches))
    /\ batch_span' = "closed"
    /\ UNCHANGED <<orchestratorVars, construction, batches, strat,
                   request, tasks, semaphore>>

\* dynamic_prompt/strategy.py:38-105
DynamicRetrievePrompts ==
    /\ Instance("dynamic")
    /\ batch_span = "none"
    /\ \E failing \in SUBSET (1 .. Len(request)) :
          LET matches == DynamicMatches(request, failing)
          IN  /\ output' = Some(PromptRetrievalOutput(matches))
              /\ metrics' = Append(metrics, CountFound(matches))
              /\ tasks' = Generations(request, failing)
    /\ batch_span' = "closed"
    /\ UNCHANGED <<orchestratorVars, construction, batches, strat,
                   request, semaphore>>

StrategyNext ==
    \/ StartBatch
    \/ \E i \in 1 .. Len(tasks) : Acquire(i)
    \/ \E i \in 1 .. Len(tasks) : Complete(i)
    \/ Gather
    \/ PassthroughRetrievePrompts
    \/ DynamicRetrievePrompts

SpecStrategy == StrategyInit /\ [][StrategyNext]_vars

----------------------------------------------------------------------------
(* Construction of the similarity strategy, then one batch on the instance *)

\* A required field of the search configuration: missing, the empty string,
\* or a value.
RequiredField == {None, Some(""), Some("set")}

\* not value, for a string-valued field
FieldGiven(value) == value # None /\ value # Some("")

\* The arguments of SimilaritySearchPromptStrategy(...)
ConstructorArguments ==
    [endpoint : RequiredField, api_key : RequiredField,
     index_name : RequiredField, similarity_threshold : Thresholds,
     max_parallel_requests : 1 .. MaxParallel]

\* A constructor that checks the endpoint only.
RequiredFieldsGiven_EndpointOnly(args) == FieldGiven(args.endpoint)

\* similarity_search/strategy.py:38-42
RequiredFieldsGiven(args) ==
    /\ FieldGiven(args.endpoint)
    /\ FieldGiven(args.api_key)
    /\ FieldGiven(args.index_name)

\* The instance __init__ leaves when it returns.
Constructed(args) ==
    [kind |-> "similarity",
     config |-> [similarity_threshold |-> args.similarity_threshold],
     max_parallel_requests |-> args.max_parallel_requests]

ConstructInit ==
    /\ construction \in [args : ConstructorArguments, state : {"called"},
                         search_client : {FALSE}]
    /\ batches = <<>>
    /\ strat = None
    /\ request \in QuestionLists
    /\ tasks = <<>>
    /\ semaphore = 0
    /\ batch_span = "none"
    /\ output = None
    /\ metrics = <<>>
    /\ NoOrchestrator

\* similarity_search/strategy.py:26-51: the ValueError leaves __init__ before
\* the search client is created, and the caller gets no instance
Construct ==
    /\ construction # None
    /\ construction.state = "called"
    /\ IF RequiredFieldsGiven(construction.args)
       THEN /\ construction' = [construction EXCEPT !.state = "returned",
                                                    !.search_client = TRUE]
            /\ strat' = Constructed(construction.args)
            /\ semaphore' = construction.args.max_parallel_requests
       ELSE /\ construction' = [construction EXCEPT !.state = "ValueError"]
            /\ UNCHANGED <<strat, semaphore>>
    /\ UNCHANGED <<orchestratorVars, metrics, batches, request, tasks,
                   batch_span, output>>

ConstructNext ==
    \/ Construct
    \/ StartBatch
    \/ \E i \in 1 .. Len(tasks) : Acquire(i)
    \/ \E i \in 1 .. Len(tasks) : Complete(i)
    \/ Gather

SpecConstruct == ConstructInit /\ [][ConstructNext]_vars

----------------------------------------------------------------------------
(* Concurrent retrieve_prompts calls on one similarity strategy instance *)

\* The number of retrieve_prompts calls made on the instance.
MaxBatches == 2

\* What the search answers in these batches: no document, or an error.
SharedResponsesFor(q) ==
    {r \in SearchResponsesFor(q) :
        r.documents = <<>> /\ r.raises \in {"none", "HttpResponseError"}}

\* One retrieve_prompts call not yet started.
NewBatch(qs) == [request |-> qs, tasks |-> <<>>, span |-> "none",
                 output |-> None]

\* An instance on which the given number of retrieve_prompts calls are made.
SharedInitOf(count) ==
    /\ strat \in {s \in SimilaritySearchPromptStrategy :
                     s.config.similarity_threshold = 0}
    /\ batches \in [1 .. count -> {NewBatch(qs) : qs \in QuestionLists}]
    \* the calls are interchangeable: they are listed longest request first
    /\ \A b \in 1 .. count - 1 :
          Len(batches[b].request) >= Len(batches[b + 1].request)
    /\ semaphore = strat.max_parallel_requests
    /\ construction = None
    /\ request = <<>>
    /\ tasks = <<>>
    /\ batch_span = "none"
    /\ output = None
    /\ metrics = <<>>
    /\ NoOrchestrator

SharedInit == SharedInitOf(MaxBatches)

\* similarity_search/strategy.py:53-67, up to the await of gather
SharedStartBatch(b) ==
    /\ batches[b].span = "none"
    /\ batches' = [batches EXCEPT
                     ![b].tasks = [i \in 1 .. Len(batches[b].request) |->
                                      PendingTask],
                     ![b].span = "open"]
    /\ UNCHANGED <<orchestratorVars, metrics, construction, strat, request,
                   tasks, semaphore, batch_span, output>>

\* similarity_search/strategy.py:86, async with self._semaphore (enter)
SharedAcquire(b, i) ==
    /\ batches[b].tasks[i].state = "pending"
    /\ CanAcquire(semaphore)
    /\ semaphore' = semaphore - 1
    /\ batches' = [batches EXCEPT ![b].tasks[i].state = "in_flight"]
    /\ UNCHANGED <<orchestratorVars, metrics, construction, strat, request,
                   tasks, batch_span, output>>

\* similarity_search/strategy.py:99-169, the search call ends and the
\* coroutine leaves the async with
SharedComplete(b, i) ==
    /\ batches[b].tasks[i].state = "in_flight"
    /\ \E response \in SharedResponsesFor(batches[b].request[i]) :
          /\ batches' = [batches EXCEPT ![b].tasks[i] =
                           [state |-> "done", response |-> Some(response),
                            result |-> Some(QueryTop1ForQuestion(
                                               batches[b].request[i],
                                               response, strat.config))]]
          /\ semaphore' = Released(semaphore, response)
    /\ UNCHANGED <<orchestratorVars, metrics, construction, strat, request,
                   tasks, batch_span, output>>

\* similarity_search/strategy.py:67-83, the gather of batch b returns
SharedGather(b) ==
    /\ batches[b].span = "open"
    /\ \A i \in 1 .. Len(batches[b].tasks) :
          batches[b].tasks[i].state = "done"
    /\ LET results == GatheredResults(Completions(batches[b].tasks))
       IN  /\ batches' = [batches EXCEPT
                            ![b].output = Some(PromptRetrievalOutput(results)),
                            ![b].span = "closed"]
           /\ metrics' = Append(metrics, CountFound(results))
    /\ UNCHANGED <<orchestratorVars, construction, strat, request, tasks,
                   semaphore, batch_span, output>>

SharedNext ==
    \/ \E b \in 1 .. Len(batches) : SharedStartBatch(b)
    \/ \E b \in 1 .. Len(batches) :
          \E i \in 1 .. Len(batches[b].tasks) : SharedAcquire(b, i)
    \/ \E b \in 1 .. Len(batches) :
          \E i \in 1 .. Len(batches[b].tasks) : SharedComplete(b, i)
    \/ \E b \in 1 .. Len(batches) : SharedGather(b)

SpecShared == SharedInit /\ [][SharedNext]_vars

----------------------------------------------------------------------------
(* Progress: a run of the orchestrator over strategy doubles, or a batch   *)
(* on a similarity strategy instance, with every enabled step eventually   *)
(* taken                                                                   *)

\* orchestrator.py:90-99 with a similarity double that answers a question
\* with a top-score match, with an error record, or not at all, or raises
LiveSimilarityStage ==
    SimilarityStageWith(StrategyOutcomes(unmatched_questions, FALSE), FALSE)

\* One run of the orchestrator, or one batch on a strategy instance.
LiveInit == Init \/ SharedInitOf(1)

LiveStartBatch == \E b \in 1 .. Len(batches) : SharedStartBatch(b)

LiveAcquire ==
    \E b \in 1 .. Len(batches) :
        \E i \in 1 .. Len(batches[b].tasks) : SharedAcquire(b, i)

LiveComplete ==
    \E b \in 1 .. Len(batches) :
        \E i \in 1 .. Len(batches[b].tasks) : SharedComplete(b, i)

LiveGather == \E b \in 1 .. Len(batches) : SharedGather(b)

LiveNext ==
    \/ GetQuestions
    \/ LiveSimilarityStage
    \/ PassthroughStage
    \/ DynamicStage
    \/ WriteMatches
    \/ LiveStartBatch
    \/ LiveAcquire
    \/ LiveComplete
    \/ LiveGather

\* The event loop resumes a coroutine that can run (the question source, the
\* result sink, the start of a call, a waiter of the semaphore while a permit
\* is free, gather once its tasks have ended), and every awaited strategy
\* call and search call eventually returns or raises.
LiveFairness ==
    /\ WF_vars(GetQuestions)
    /\ WF_vars(LiveSimilarityStage)
    /\ WF_vars(PassthroughStage)
    /\ WF_vars(DynamicStage)
    /\ WF_vars(WriteMatches)
    /\ WF_vars(LiveStartBatch)
    /\ WF_vars(LiveAcquire)
    /\ WF_vars(LiveComplete)
    /\ WF_vars(LiveGather)

SpecLive == LiveInit /\ [][LiveNext]_vars /\ LiveFairness

----------------------------------------------------------------------------
(* Either kind of run: one run of the orchestrator over strategy doubles,  *)
(* or one batch on one strategy instance                                   *)

RunsInit == Init \/ StrategyInit

RunsNext == Next \/ StrategyNext

SpecRuns == RunsInit /\ [][RunsNext]_vars

----------------------------------------------------------------------------
(* The orchestrator over the real strategies *)

\* similarity_search/strategy.py:53-83 as a function of what the search
\* answered for each question: gather keeps the order of the tasks
SimilarityMatches(qs, responses, cfg) ==
    GatheredResults([i \in 1 .. Len(qs) |->
                        QueryTop1ForQuestion(qs[i], responses[i], cfg)])

\* The search answers of a run: an HTTP error, no document, a document with
\* its prompt text that echoes the question's id with any or no score, or
\* one that echoes the id before it.
PipelineResponsesFor(q) ==
    {r \in SearchResponsesFor(q) :
        /\ r.raises \in {"none", "HttpResponseError"}
        /\ r.documents # <<>> =>
              LET doc == Head(r.documents)
              IN  /\ doc.promptText # None
                  /\ doc.questionId # None
                  /\ doc.questionId = Some(q.question_id) =>
                        doc.questionText = None}

PipelineResponses(qs) ==
    {responses \in [1 .. Len(qs) ->
                        UNION {PipelineResponsesFor(qs[i]) : i \in 1 .. Len(qs)}] :
        \A i \in 1 .. Len(qs) : responses[i] \in PipelineResponsesFor(qs[i])}

\* The strategies the composition root builds: a similarity strategy with
\* its own threshold and a passthrough strategy with plain or failing
\* formatting.
Pipelines ==
    [kind : {"pipeline"},
     similarity : AzureAISearchConfig,
     passthrough : {cfg \in PassthroughPromptConfig :
                       /\ cfg.prefix = None
                       /\ cfg.suffix = None
                       /\ cfg.format_template \in
                             {None, Some(<<Word("Answer:"), Field("context")>>)}}]

PipelineInit ==
    /\ OrchestratorInit
    /\ construction = None
    /\ batches = <<>>
    /\ strat \in Pipelines
    /\ request = <<>>
    /\ tasks = <<>>
    /\ semaphore = 0
    /\ batch_span = "none"
    /\ output = None

PipelineSimilarityStage ==
    SimilarityStageWith(
        {PromptRetrievalOutput(
            SimilarityMatches(unmatched_questions, responses, strat.similarity)) :
            responses \in PipelineResponses(unmatched_questions)},
        TRUE)

PipelinePassthroughStage ==
    PassthroughStageWith(
        {PromptRetrievalOutput(
            PassthroughMatches(strat.passthrough, unmatched_questions))},
        TRUE)

PipelineDynamicStage ==
    DynamicStageWith(
        {PromptRetrievalOutput(DynamicMatches(unmatched_questions, failing)) :
            failing \in SUBSET (1 .. Len(unmatched_questions))},
        TRUE)

PipelineNext ==
    \/ GetQuestions
    \/ PipelineSimilarityStage
    \/ PipelinePassthroughStage
    \/ PipelineDynamicStage
    \/ WriteMatches

SpecPipeline == PipelineInit /\ [][PipelineNext]_vars

----------------------------------------------------------------------------
(* Vocabulary of the strategy properties *)

BatchReturned == output # None

OutputResults == output[1].results

TaskIds == 1 .. Len(tasks)

DoneTasks == {i \in TaskIds : tasks[i].state = "done"}

ResponseOf(i) == tasks[i].response[1]

\* The search call of task i ended with an exception.
BackendFailed(i) == ResponseOf(i).raises # "none"

\* The search call of task i returned no document.
NoDocument(i) == ~BackendFailed(i) /\ ResponseOf(i).documents = <<>>

DocumentOf(i) == Head(ResponseOf(i).documents)

\* What task i handed to gather, and the match in it.
CompletionOf(i) == tasks[i].result[1]

MatchOf(i) == CompletionOf(i).match

----------------------------------------------------------------------------
(* Claims about the strategies *)

(* C11: the output of a strategy's retrieve_prompts, for the similarity, the *)
(* passthrough and the dynamic strategy alike, has exactly one match per    *)
(* question of the request, also when backend calls failed or returned no   *)
(* document.                                                                *)
C11_OneMatchPerQuestion ==
    BatchReturned => Len(OutputResults) = Len(request)

C11_Witness ==
    /\ BatchReturned
    /\ strat.kind = "similarity"
    /\ Len(request) >= 2
    /\ \E i \in TaskIds : ResponseOf(i).raises = "Exception"
    /\ \E i \in TaskIds : NoDocument(i)

(* C12: during a similarity batch the number of search calls in flight never *)
(* exceeds max_parallel_requests, whatever order the tasks run in.          *)
C12_InFlightBounded ==
    strat.kind = "similarity" =>
        Cardinality(InFlight) <= strat.max_parallel_requests

C12_Witness ==
    /\ strat.kind = "similarity"
    /\ Len(request) > strat.max_parallel_requests
    /\ Cardinality(InFlight) = strat.max_parallel_requests
    /\ \E i \in TaskIds : tasks[i].state = "pending"

(* C13: the similarity strategy sets match_found exactly when the document's *)
(* score is a number and is at least the strategy's similarity_threshold; no *)
(* document, a missing score and a non-numeric score give a match with      *)
(* match_found false, and the task returns instead of raising.              *)
C13_DecisionRule ==
    strat.kind = "similarity" =>
        \A i \in DoneTasks :
            ~BackendFailed(i) =>
                /\ ~CompletionOf(i).exception
                /\ MatchOf(i).match_found =
                      (/\ ResponseOf(i).documents # <<>>
                       /\ DocumentOf(i).score \in NumericScores
                       /\ DocumentOf(i).score[1] >=
                             strat.config.similarity_threshold)

C13_Witness ==
    /\ strat.kind = "similarity"
    /\ \E i \in DoneTasks :
          /\ ~BackendFailed(i) /\ ~NoDocument(i)
          /\ DocumentOf(i).score = Some(strat.config.similarity_threshold)
          /\ MatchOf(i).match_found
    /\ \E i \in DoneTasks :
          /\ ~BackendFailed(i) /\ ~NoDocument(i)
          /\ DocumentOf(i).score = NonNumericScore
          /\ ~MatchOf(i).match_found

(* C14: a backend error on one question's search call gives that question a *)
(* match with match_found false, an error and the input's question_id; the  *)
(* batch still returns, and the output holds at every other position the    *)
(* match computed for that position's question.                             *)
C14_BackendErrorIsolated ==
    strat.kind = "similarity" =>
        /\ \A i \in DoneTasks :
              BackendFailed(i) =>
                  /\ ~CompletionOf(i).exception
                  /\ ~MatchOf(i).match_found
                  /\ MatchOf(i).error # None
                  /\ MatchOf(i).question_id = request[i].question_id
        /\ BatchReturned =>
              /\ Len(OutputResults) = Len(tasks)
              /\ \A i \in TaskIds : OutputResults[i] = MatchOf(i)

C14_Witness ==
    /\ strat.kind = "similarity"
    /\ BatchReturned
    /\ \E i \in TaskIds : ResponseOf(i).raises = "HttpResponseError"
    /\ \E i \in TaskIds : ~BackendFailed(i) /\ OutputResults[i].match_found

(* C16: the passthrough strategy answers every question with match_found    *)
(* true, score 1.0 and a prompt text, unless formatting raises: then the    *)
(* question gets match_found false with an error, and the later questions of *)
(* the batch are answered all the same.                                     *)
C16_PassthroughAnswersAll ==
    (strat.kind = "passthrough" /\ BatchReturned) =>
        /\ Len(OutputResults) = Len(request)
        /\ \A i \in 1 .. Len(OutputResults) :
              LET m == OutputResults[i]
              IN  IF FormatQuestionRaises(strat.config)
                  THEN ~m.match_found /\ m.error # None
                  ELSE /\ m.match_found
                       /\ m.match_score = PerfectScore
                       /\ m.selected_prompt_text # None

C16_Witness ==
    /\ strat.kind = "passthrough"
    /\ BatchReturned
    /\ Len(request) >= 2
    /\ FormatQuestionRaises(strat.config)
    /\ \A i \in 1 .. Len(OutputResults) : OutputResults[i].error # None

(* C17: the dynamic strategy answers a question with match_found true and   *)
(* score 1.0 when generating its prompt succeeded and with match_found false *)
(* and an error when it failed; a failure does not keep the other questions *)
(* from being answered.                                                     *)
C17_DynamicAnswersAll ==
    (strat.kind = "dynamic" /\ BatchReturned) =>
        /\ Len(OutputResults) = Len(request)
        /\ \A i \in 1 .. Len(OutputResults) :
              LET m == OutputResults[i]
              IN  IF BackendFailed(i)
                  THEN ~m.match_found /\ m.error # None
                  ELSE m.match_found /\ m.match_score = PerfectScore

C17_Witness ==
    /\ strat.kind = "dynamic"
    /\ BatchReturned
    /\ \E i \in TaskIds : BackendFailed(i) /\ ~OutputResults[i].match_found
    /\ \E i \in TaskIds : ~BackendFailed(i) /\ OutputResults[i].match_found

(* C20: every match with match_found true in the output of a strategy has a *)
(* selected_prompt_text.                                                    *)
C20_FoundHasPrompt ==
    BatchReturned =>
        \A i \in 1 .. Len(OutputResults) :
            OutputResults[i].match_found =>
                OutputResults[i].selected_prompt_text # None

----------------------------------------------------------------------------
(* Claims about the orchestrator, continued *)

(* C19: when write_matches raises, the exception leaves retrieve_prompts   *)
(* and the orchestrator's matched-questions metric is not recorded for the *)
(* run; a strategy call that raises, in whatever stage, never makes        *)
(* retrieve_prompts raise.                                                 *)
C19_OnlyPersistenceFailureSurfaces ==
    /\ raised => /\ pc = "done"
                 /\ Len(written) = 1
                 /\ metrics = <<>>
                 /\ span = "closed"
    /\ (pc # "done" \/ written = <<>>) => ~raised
    /\ (pc = "done" /\ written # <<>> /\ ~raised) => Len(metrics) = 1

C19_Witness ==
    /\ raised
    /\ RaisedCalls >= 1
    /\ written # <<>> /\ written[1] # <<>>

\* The similarity stage kept good matches for exactly two of three questions.
TwoOfThreeMatched ==
    /\ SimilarityDone
    /\ Len(questions) = 3
    /\ Len(SimilarityPart) = 2
    /\ Len(UnmatchedAfterSimilarity) = 1

\* The call of the strategy, once it has completed.
CallOf(strategy) ==
    calls[CHOOSE i \in 1 .. Len(calls) : calls[i].strategy = strategy]

(* C18 as stated: in a run with 3 questions where the similarity stage     *)
(* kept good matches for exactly 2 of them, exactly those 2 matches are    *)
(* written and neither the passthrough nor the dynamic strategy is         *)
(* invoked.                                                                *)
C18_NoFallbackInvoked ==
    TwoOfThreeMatched =>
        /\ ~Invoked("passthrough")
        /\ ~Invoked("dynamic")
        /\ pc = "done" => written = <<SimilarityPart>>

(* C18, amended: in such a run the 2 good matches, each at or above the    *)
(* orchestrator's threshold, are the first matches written; with no        *)
(* fallback stage enabled and injected they are all that is written and no *)
(* fallback strategy is invoked, and otherwise the third question is       *)
(* handed to the first enabled fallback stage.                             *)
C18_TwoOfThreeWritten ==
    TwoOfThreeMatched =>
        /\ \A m \in Range(SimilarityPart) :
              /\ m.match_found
              /\ m.match_score # None
              /\ m.match_score[1] >= config.similarity_threshold
        /\ pc = "done" =>
              /\ Len(written) = 1
              /\ SubSeq(written[1], 1, 2) = SimilarityPart
        /\ NoFallbackEnabled =>
              /\ ~Invoked("passthrough")
              /\ ~Invoked("dynamic")
              /\ pc = "done" => written = <<SimilarityPart>>
        /\ PassthroughFlags =>
              /\ Invoked("passthrough")
              /\ Called("passthrough") =>
                    CallOf("passthrough").questions = UnmatchedAfterSimilarity
        /\ (~PassthroughFlags /\ DynamicFlags) =>
              /\ Invoked("dynamic")
              /\ Called("dynamic") =>
                    CallOf("dynamic").questions = UnmatchedAfterSimilarity

C18_Witness ==
    /\ pc = "done"
    /\ TwoOfThreeMatched
    /\ NoFallbackEnabled
    /\ ~raised
    /\ Len(written) = 1
    /\ Len(written[1]) = 2
    /\ metrics = <<2>>

----------------------------------------------------------------------------
(* Claims about the orchestrator over the real strategies *)

\* The similarity results below are kept apart by position: the i-th result
\* is the one computed for the i-th question.
SimilarityKept(i) == SimilarityResults[i] \in Range(SimilarityPart)

HandedOn(q) ==
    /\ q \in Range(UnmatchedAfterSimilarity)
    /\ Len(calls) = 1 => q \in Range(unmatched_questions)
    /\ \A j \in 1 .. Len(calls) :
          calls[j].strategy = "passthrough" => q \in Range(calls[j].questions)

(* C15: the strategy's and the orchestrator's similarity_threshold are     *)
(* separate gates: a similarity result is kept as a final match only if    *)
(* its score is at least both; a result the strategy found that is below   *)
(* the orchestrator's threshold is not kept and its question is handed on  *)
(* to the fallback stages; a result at or above the orchestrator's         *)
(* threshold but below the strategy's has match_found false and is not     *)
(* kept either.                                                            *)
C15_BothThresholdsGate ==
    SimilarityDone =>
        \A i \in 1 .. Len(SimilarityResults) :
            LET r == SimilarityResults[i]
                scored == r.match_score # None
            IN  /\ SimilarityKept(i) =>
                      /\ scored
                      /\ r.match_score[1] >= strat.similarity.similarity_threshold
                      /\ r.match_score[1] >= config.similarity_threshold
                /\ (/\ r.match_found
                    /\ scored
                    /\ r.match_score[1] < config.similarity_threshold) =>
                      /\ ~SimilarityKept(i)
                      /\ HandedOn(questions[i])
                /\ (/\ scored
                    /\ r.match_score[1] >= config.similarity_threshold
                    /\ r.match_score[1] < strat.similarity.similarity_threshold) =>
                      /\ ~r.match_found
                      /\ ~SimilarityKept(i)

----------------------------------------------------------------------------
(* C21: constructing the similarity strategy with an empty or missing      *)
(* endpoint, api_key or index_name fails at construction with a            *)
(* ValueError; afterwards no instance exists, no search client was created *)
(* and no task of a batch ever exists. With the three fields given the     *)
(* constructor returns an instance.                                        *)
C21_ConstructionFailsFast ==
    (construction # None /\ construction.state # "called") =>
        LET args == construction.args
            incomplete == \/ args.endpoint \in {None, Some("")}
                          \/ args.api_key \in {None, Some("")}
                          \/ args.index_name \in {None, Some("")}
        IN  /\ incomplete <=> construction.state = "ValueError"
            /\ construction.state = "ValueError" =>
                  /\ strat = None
                  /\ ~construction.search_client
                  /\ tasks = <<>>
                  /\ batch_span = "none"
                  /\ output = None
            /\ construction.state = "returned" => strat # None

C21_Witness ==
    /\ construction # None
    /\ construction.state = "ValueError"
    /\ construction.args.endpoint = Some("set")
    /\ construction.args.api_key = Some("set")
    /\ construction.args.index_name = Some("")

----------------------------------------------------------------------------
(* C22: in every run whose question list is not empty the similarity       *)
(* strategy is invoked exactly once, as the first strategy invocation of   *)
(* the run, with the complete question list in source order.               *)
C22_SimilarityFirstOnce ==
    questions # <<>> =>
        /\ pc = "similarity" => calls = <<>>
        /\ pc # "similarity" =>
              /\ calls # <<>>
              /\ calls[1].strategy = "similarity"
              /\ calls[1].questions = questions
              /\ \A i \in 2 .. Len(calls) : calls[i].strategy # "similarity"

C22_Witness ==
    /\ pc = "done"
    /\ Len(questions) = MaxQuestions
    /\ Len(calls) = 3
    /\ calls[1].strategy = "similarity"

----------------------------------------------------------------------------
\* The position of a strategy in the cascade.
StageRank(strategy) ==
    CASE strategy = "similarity" -> 1
      [] strategy = "passthrough" -> 2
      [] strategy = "dynamic" -> 3

\* The strategy calls that have completed all belong to earlier stages.
OnlyStagesBefore(rank) ==
    \A i \in 1 .. Len(calls) : StageRank(calls[i].strategy) < rank

(* C23: the stages of a run never overlap and run in the order similarity, *)
(* passthrough, dynamic, persistence: a stage is entered only when every   *)
(* strategy call so far belongs to an earlier stage and has completed,     *)
(* each strategy is invoked at most once, and write_matches is called, at  *)
(* most once and as the last step, only after every enabled stage has      *)
(* completed.                                                              *)
C23_StagesInOrder ==
    /\ \A i, j \in 1 .. Len(calls) :
          i < j => StageRank(calls[i].strategy) < StageRank(calls[j].strategy)
    /\ pc = "similarity" => OnlyStagesBefore(1)
    /\ pc = "passthrough" => OnlyStagesBefore(2)
    /\ pc = "dynamic" => OnlyStagesBefore(3)
    /\ Len(written) <= 1
    /\ written # <<>> => pc = "done"
    /\ (pc = "write" \/ written # <<>>) =>
          /\ Called("similarity")
          /\ (PassthroughFlags /\ UnmatchedAfterSimilarity # <<>>) =>
                Called("passthrough")
          /\ (DynamicFlags /\ UnmatchedAfterPassthrough # <<>>) =>
                Called("dynamic")

C23_Witness ==
    /\ written # <<>>
    /\ Len(calls) = 3
    /\ calls[2].strategy = "passthrough"
    /\ calls[3].strategy = "dynamic"

----------------------------------------------------------------------------
(* C25: when the passthrough stage runs but contributes no results (the    *)
(* strategy returned an empty list or raised) the unmatched set is left    *)
(* as it was, and, when the dynamic stage is enabled, the dynamic strategy *)
(* is invoked with all the questions that were unmatched before            *)
(* passthrough.                                                            *)
C25_EmptyPassthroughFallsThrough ==
    \A i \in 1 .. Len(calls) :
        (calls[i].strategy = "passthrough" /\ calls[i].results = <<>>) =>
            /\ calls[i].questions = UnmatchedAfterSimilarity
            /\ Len(calls) = i => unmatched_questions = calls[i].questions
            /\ DynamicFlags <=> Invoked("dynamic")
            /\ pc = "dynamic" => unmatched_questions = calls[i].questions
            /\ Called("dynamic") =>
                  CallOf("dynamic").questions = calls[i].questions

C25_Witness ==
    /\ Len(calls) = 3
    /\ calls[2].strategy = "passthrough"
    /\ calls[2].results = <<>>
    /\ ~calls[2].raised
    /\ calls[3].strategy = "dynamic"
    /\ Len(calls[3].questions) = MaxQuestions

----------------------------------------------------------------------------
\* The ids of the matches handed to write_matches.
WrittenIds == UNION {{m.question_id : m \in Range(written[i])} :
                        i \in 1 .. Len(written)}

\* The ids listed by the "could not be matched by any strategy" warning.
WarnedIds == UNION {Range(log[i].ids) :
                       i \in {j \in 1 .. Len(log) : log[j].event = "unmatched"}}

(* C30: at the end of a run with a non-empty question list, whatever the   *)
(* injected strategies returned, the id of every input question is the     *)
(* question_id of a written match or is listed in the "could not be        *)
(* matched by any strategy" warning.                                       *)
C30_EveryQuestionAccounted ==
    (pc = "done" /\ questions # <<>>) =>
        \A q \in Range(questions) :
            q.question_id \in WrittenIds \cup WarnedIds

----------------------------------------------------------------------------
(* C24: the similarity batch is a fan-out / fan-in barrier: one task per   *)
(* question is created when the batch starts, and retrieve_prompts returns *)
(* no output while any task of the batch is still pending or in flight.    *)
C24_GatherIsBarrier ==
    Instance("similarity") =>
        /\ batch_span # "none" => Len(tasks) = Len(request)
        /\ (\E i \in TaskIds : tasks[i].state \in {"pending", "in_flight"}) =>
              ~BatchReturned
        /\ BatchReturned => DoneTasks = TaskIds

C24_Witness ==
    /\ Instance("similarity")
    /\ BatchReturned
    /\ Len(tasks) = MaxQuestions
    /\ strat.max_parallel_requests = 1

----------------------------------------------------------------------------
\* Task i got a document whose score is a number below the strategy's
\* threshold.
BelowThreshold(i) ==
    /\ ~BackendFailed(i)
    /\ ~NoDocument(i)
    /\ IsNumeric(DocumentOf(i).score)
    /\ DocumentOf(i).score[1] < strat.config.similarity_threshold

(* C26: when the search returns a document whose numeric score is below    *)
(* the strategy's threshold, the match has match_found = false and still   *)
(* carries the document's score as match_score and the document's prompt   *)
(* text as selected_prompt_text.                                           *)
C26_BelowThresholdKeepsData ==
    Instance("similarity") =>
        \A i \in DoneTasks :
            BelowThreshold(i) =>
                /\ ~MatchOf(i).match_found
                /\ MatchOf(i).match_score = DocumentOf(i).score
                /\ MatchOf(i).selected_prompt_text = DocumentOf(i).promptText
                /\ MatchOf(i).error = None

C26_Witness ==
    /\ Instance("similarity")
    /\ BatchReturned
    /\ \E i \in DoneTasks :
          /\ BelowThreshold(i)
          /\ DocumentOf(i).score = Some(MaxScore)
          /\ DocumentOf(i).promptText = Some(LibraryPrompt)
          /\ OutputResults[i].selected_prompt_text = Some(LibraryPrompt)

----------------------------------------------------------------------------
(* C27: a match built from a document takes question_id and question_text  *)
(* from the document's echoed fields when those are present and falls back *)
(* to the input's values only when they are absent; the no-document and    *)
(* the error paths always carry the input's id and text.                   *)
C27_EchoedIdentity ==
    Instance("similarity") =>
        \A i \in DoneTasks :
            LET q == request[i]
            IN  IF BackendFailed(i) \/ NoDocument(i)
                THEN /\ MatchOf(i).question_id = q.question_id
                     /\ MatchOf(i).question_text = q.question_text
                ELSE /\ MatchOf(i).question_id =
                           IF DocumentOf(i).questionId # None
                           THEN DocumentOf(i).questionId[1]
                           ELSE q.question_id
                     /\ MatchOf(i).question_text =
                           IF DocumentOf(i).questionText # None
                           THEN DocumentOf(i).questionText[1]
                           ELSE q.question_text

----------------------------------------------------------------------------
(* C28: the output of the passthrough strategy preserves the input order:  *)
(* the i-th result is the match of the i-th question of the request,       *)
(* whether formatting succeeded or raised.                                 *)
C28_PassthroughKeepsOrder ==
    (Instance("passthrough") /\ BatchReturned) =>
        /\ Len(OutputResults) = Len(request)
        /\ \A i \in 1 .. Len(request) :
              /\ OutputResults[i].question_id = request[i].question_id
              /\ OutputResults[i].question_text = request[i].question_text

C28_Witness ==
    /\ Instance("passthrough")
    /\ BatchReturned
    /\ Len(request) = MaxQuestions
    /\ OutputResults[1].question_id = 1
    /\ OutputResults[MaxQuestions].question_id = MaxQuestions
    /\ OutputResults[1].match_found

----------------------------------------------------------------------------
(* C29: every span opened by a run is closed on every exit path: a run of  *)
(* the orchestrator has its one orchestrator_retrieve_prompts span open    *)
(* exactly while it is between its start and its end, and closed once it   *)
(* has ended by early return, by normal completion or by a persistence     *)
(* error; a strategy's batch span is closed when the strategy has          *)
(* returned.                                                               *)
C29_SpansClosed ==
    /\ pc = "start" => span = "none"
    /\ pc \in {"similarity", "passthrough", "dynamic", "write"} =>
          span = "open"
    /\ pc = "done" => span = "closed"
    /\ BatchReturned => batch_span = "closed"
    /\ batch_span = "open" =>
          /\ Instance("similarity")
          /\ ~BatchReturned

C29_Witness ==
    /\ pc = "done"
    /\ raised
    /\ span = "closed"
    /\ written # <<>>

C29_BatchWitness ==
    /\ Instance("similarity")
    /\ BatchReturned
    /\ batch_span = "closed"
    /\ Len(tasks) = MaxQuestions

----------------------------------------------------------------------------
\* The matches handed to write_matches, and the ids of the run's questions.
WrittenMatches == UNION {Range(written[i]) : i \in 1 .. Len(written)}

InputIds == {q.question_id : q \in Range(questions)}

(* C31: every match passed to write_matches in a run has the question_id   *)
(* of one of that run's input questions, for any document the search       *)
(* backend may return.                                                     *)
C31_WrittenIdsAreInputIds ==
    \A m \in WrittenMatches : m.question_id \in InputIds

----------------------------------------------------------------------------
(* C32: in one run (the ids of the input questions are distinct) no two    *)
(* matches passed to write_matches refer to the same input question: the   *)
(* written list has at most one match per question_id.                     *)
C32_OneWrittenMatchPerQuestion ==
    \A w \in 1 .. Len(written) :
        \A j, k \in 1 .. Len(written[w]) :
            j # k => written[w][j].question_id # written[w][k].question_id

----------------------------------------------------------------------------
(* C33: the written results of one run never contain results from both the *)
(* passthrough stage and the dynamic stage: the dynamic strategy is        *)
(* invoked only in runs where the passthrough stage contributed no results *)
(* (not enabled, not injected, returned nothing, or raised).               *)
C33_PassthroughXorDynamic ==
    /\ Invoked("dynamic") => ResultsOf("passthrough") = <<>>
    /\ ResultsOf("passthrough") = <<>> \/ ResultsOf("dynamic") = <<>>
    /\ written # <<>> =>
          \/ written[1] = SimilarityPart \o ResultsOf("passthrough")
          \/ written[1] = SimilarityPart \o ResultsOf("dynamic")

C33_Witness ==
    /\ written # <<>>
    /\ Called("passthrough")
    /\ ~CallOf("passthrough").raised
    /\ ResultsOf("passthrough") = <<>>
    /\ Len(ResultsOf("dynamic")) = MaxQuestions
    /\ written[1] = ResultsOf("dynamic")

----------------------------------------------------------------------------
\* The total added to the matched_questions_total counter of the one
\* telemetry sink.
RECURSIVE SumOf(_)
SumOf(counts) == IF counts = <<>> THEN 0 ELSE Head(counts) + SumOf(Tail(counts))

\* The number of matches with match_found = true that were stored.
WrittenFound == IF written = <<>> THEN 0 ELSE CountFound(written[1])

(* C34: in one run of the orchestrator over the real strategies, which     *)
(* share one telemetry sink, the total added to the matched-questions      *)
(* counter equals the number of written matches with match_found = true.   *)
C34_CounterEqualsWrittenFound ==
    (pc = "done" /\ ~raised) => SumOf(metrics) = WrittenFound

----------------------------------------------------------------------------
\* The search calls in flight in batch b, and the batches that are running.
InFlightOf(b) ==
    {i \in 1 .. Len(batches[b].tasks) : batches[b].tasks[i].state = "in_flight"}

RunningBatches == {b \in 1 .. Len(batches) : batches[b].span = "open"}

RECURSIVE InFlightUpTo(_)
InFlightUpTo(b) ==
    IF b = 0 THEN 0 ELSE Cardinality(InFlightOf(b)) + InFlightUpTo(b - 1)

(* C35: the concurrency limiter belongs to the strategy instance, not to a *)
(* batch: with retrieve_prompts batches running concurrently on one        *)
(* instance, the search calls in flight across the batches together never  *)
(* exceed max_parallel_requests, every permit taken is given back when its *)
(* call returns or fails, and the limiter is at full capacity whenever no  *)
(* batch is running.                                                       *)
C35_LimiterSharedByBatches ==
    batches # <<>> =>
        /\ InFlightUpTo(Len(batches)) <= strat.max_parallel_requests
        /\ semaphore = strat.max_parallel_requests - InFlightUpTo(Len(batches))
        /\ RunningBatches = {} => semaphore = strat.max_parallel_requests

C35_Witness ==
    /\ batches # <<>>
    /\ Cardinality(RunningBatches) = MaxBatches
    /\ \A b \in RunningBatches : Cardinality(InFlightOf(b)) = 1
    /\ \E b \in RunningBatches :
          \E i \in 1 .. Len(batches[b].tasks) :
              batches[b].tasks[i].state = "pending"
    /\ semaphore = 0

----------------------------------------------------------------------------
(* C36: the output order of the similarity strategy does not depend on the *)
(* interleaving of its per-question tasks: whenever every task yields a    *)
(* match, the i-th result of the output is the result computed for the     *)
(* i-th question of the request, whatever order the search calls complete  *)
(* in.                                                                     *)
C36_OutputInRequestOrder ==
    (/\ Instance("similarity")
     /\ BatchReturned
     /\ Len(OutputResults) = Len(request)) =>
        \A i \in 1 .. Len(request) :
            /\ OutputResults[i] = MatchOf(i)
            /\ OutputResults[i] =
                  QueryTop1ForQuestion(request[i], ResponseOf(i),
                                       strat.config).match

C36_Witness ==
    /\ Instance("similarity")
    /\ strat.max_parallel_requests = MaxParallel
    /\ BatchReturned
    /\ Len(OutputResults) = MaxQuestions
    /\ OutputResults[1].question_id = 1
    /\ OutputResults[1].match_found
    /\ OutputResults[MaxQuestions].question_id = MaxQuestions
    /\ ~OutputResults[MaxQuestions].match_found

\* The search call of a later question has ended while the first question's
\* task has not: the calls complete in any order.
C36_OutOfOrder ==
    /\ Instance("similarity")
    /\ Len(tasks) = MaxQuestions
    /\ tasks[1].state # "done"
    /\ tasks[MaxQuestions].state = "done"

----------------------------------------------------------------------------
\* Every retrieve_prompts call on the strategy instance has returned.
AllBatchesReturned ==
    \A b \in 1 .. Len(batches) : batches[b].output # None

(* C37: every similarity batch of n questions with a limiter of capacity   *)
(* k >= 1 eventually completes and returns, also when n > k, provided each *)
(* search call eventually returns or raises; and every run of the          *)
(* orchestrator eventually reaches its end (results stored, storing        *)
(* skipped, or the storing error propagated) provided each strategy call   *)
(* eventually returns or raises.                                           *)
C37_EventuallyEnds ==
    <>(IF batches # <<>> THEN AllBatchesReturned ELSE pc = "done")

C37_Witness ==
    /\ batches # <<>>
    /\ strat.max_parallel_requests = 1
    /\ Len(batches[1].request) = MaxQuestions
    /\ AllBatchesReturned
    /\ semaphore = 1

\* A run of the orchestrator that went through the three stages has ended.
C37_RunEnded ==
    /\ pc = "done"
    /\ Len(calls) = 3
    /\ written # <<>>

----------------------------------------------------------------------------
(* C38: no strategy produces a QuestionPromptMatch with match_found = true *)
(* and a non-null error: in the output of the similarity, the passthrough  *)
(* and the dynamic strategy, and in what each similarity task hands to     *)
(* gather, error is set only on matches with match_found = false.          *)
C38_NoFoundWithError ==
    /\ BatchReturned =>
          \A i \in 1 .. Len(OutputResults) :
              OutputResults[i].error # None => ~OutputResults[i].match_found
    /\ Instance("similarity") =>
          \A i \in DoneTasks : MatchOf(i).error # None => ~MatchOf(i).match_found

C38_Witness ==
    /\ Instance("similarity")
    /\ BatchReturned
    /\ Len(OutputResults) = MaxQuestions
    /\ OutputResults[1].error # None
    /\ ~OutputResults[1].match_found
    /\ OutputResults[MaxQuestions].match_found
    /\ OutputResults[MaxQuestions].error = None

====
